---- MODULE Spec2Model ----
(***************************************************************************)
(* Backbone.OAuth2 (backbone.oauth2.js v0.2.1): the password-grant token   *)
(* state kept in jStorage and in the static OAuth2.state, the operations   *)
(* access / refresh / revoke with their ajax callbacks, and the            *)
(* setTimeout-driven triggerRefresh scheduler.                             *)
(*                                                                         *)
(* Time is the value of new Date().getTime(), in milliseconds.             *)
(* JavaScript values are records with a tag: "null", "false" (what         *)
(* load() returns for a missing key), "object" (a token response),         *)
(* "string" (an error message) and "xhr" (a failed jqXHR).  A missing      *)
(* property of an object is Undefined for strings and <<>> for numbers;    *)
(* a present number n is <<n>>.                                            *)
(***************************************************************************)
EXTENDS Integers, Sequences, FiniteSets, Bags

VARIABLES
    now,          \* new Date().getTime()
    advances,     \* how many times the clock has advanced
    storage,      \* $.jStorage value under STORAGE_KEY ("false" tag: no key)
    ttlDue,       \* <<t>>: jStorage drops the key at time t; <<>>: no TTL
    state,        \* Backbone.OAuth2.state
    autoRefresh,  \* options.autoRefresh
    timers,       \* due times of the pending setTimeout(triggerRefresh) calls
    inflight,     \* $.ajax requests sent and not yet answered
    op,           \* the operation or callback that ran last
    emitted,      \* the events it triggered, in order
    sent,         \* the requests it handed to $.ajax, in order
    thrown,       \* whether it ended in a TypeError
    requests      \* how many requests have been handed to $.ajax so far

vars == <<now, advances, storage, ttlDue, state, autoRefresh, timers,
          inflight, op, emitted, sent, thrown, requests>>

----------------------------------------------------------------------------
(* Program constants *)

AUTO_REFRESH_TIME == 60000

REFRESH_MAX_TIME == 600

(* Bounds of the model *)

MaxAdvances == 3

MaxRequests == 2

\* The amounts by which the clock advances between two steps of the program.
ClockSteps == {100, AUTO_REFRESH_TIME}

----------------------------------------------------------------------------
(* JavaScript values *)

Undefined == "undefined"

Bearer == <<"b", "e", "a", "r", "e", "r">>

Value(tag) ==
    [tag |-> tag, access_token |-> Undefined, refresh_token |-> Undefined,
     token_type |-> <<>>, expires_in |-> <<>>, time |-> <<>>, status |-> 0,
     text |-> ""]

NullValue == Value("null")

FalseValue == Value("false")

\* A JSON token response of the access or refresh endpoint.
Response(a, r, tt, e) ==
    [Value("object") EXCEPT !.access_token = a, !.refresh_token = r,
                            !.token_type = tt, !.expires_in = e]

\* The responses the server may give to an access or refresh request.
Responses ==
    { Response("A1", "R1", Bearer, <<60600>>),
      Response("A2", Undefined, <<"B", "E", "A", "R", "E", "R">>, <<100>>),
      Response("A2", "R2", Bearer, <<>>) }

\* The body of a successful revoke response.
RevokeBody == Value("object")

Xhr(status) == [Value("xhr") EXCEPT !.status = status]

\* The statuses of a failed revoke response.
RevokeFailures == {401, 500}

Message(text) == [Value("string") EXCEPT !.text = text]

NoAuthenticationData ==
    Message("No authentication data found, please use the access method first.")

Truthy(v) == v.tag \notin {"null", "false", "undefined"}

\* parseInt(v): <<n>> for a number, <<>> (NaN) otherwise.
ParseInt(v) == IF Len(v) = 1 THEN v ELSE <<>>

\* a + b and a - b on numbers, NaN when either is NaN or undefined.
Plus(a, b) == IF Len(a) = 1 /\ Len(b) = 1 THEN <<a[1] + b[1]>> ELSE <<>>

Minus(a, b) == IF Len(a) = 1 /\ Len(b) = 1 THEN <<a[1] - b[1]>> ELSE <<>>

\* a > b and a < b: false when either side is NaN.
Greater(a, b) == Len(a) = 1 /\ Len(b) = 1 /\ a[1] > b[1]

Less(a, b) == Len(a) = 1 /\ Len(b) = 1 /\ a[1] < b[1]

Event(name, payload) == [name |-> name, payload |-> payload]

Names(events) == [i \in 1..Len(events) |-> events[i].name]

----------------------------------------------------------------------------
(* capitalize *)

UpperCase(c) ==
    CASE c = "b" -> "B" [] c = "e" -> "E" [] c = "a" -> "A" [] c = "r" -> "R"
      [] OTHER -> c

LowerCase(c) ==
    CASE c = "B" -> "b" [] c = "E" -> "e" [] c = "A" -> "a" [] c = "R" -> "r"
      [] OTHER -> c

\* capitalize without the toLowerCase of the remainder
capitalizeFirstOnly(str) ==
    [i \in 1..Len(str) |-> IF i = 1 THEN UpperCase(str[i]) ELSE str[i]]

capitalize(str) ==
    [i \in 1..Len(str) |-> IF i = 1 THEN UpperCase(str[i]) ELSE LowerCase(str[i])]

----------------------------------------------------------------------------
(* jStorage: load, save, clear *)

load(st) == st

\* $.jStorage.setTTL(key, ttl): a ttl that is not a positive number removes
\* the TTL of the key.
TTLDue(ttl, t) == IF Greater(ttl, <<0>>) THEN <<t + ttl[1]>> ELSE <<>>

\* save without its $.jStorage.setTTL call
saveWithoutTTL(value, ttl, t) == <<value, <<>>>>

\* save(state, ttl) at time t: the pair <<storage, ttlDue>> it leaves.
save(value, ttl, t) == <<value, TTLDue(ttl, t)>>

\* clear(): the pair <<storage, ttlDue>> it leaves.
clear(st, due) == IF Truthy(st) THEN <<FalseValue, <<>>>> ELSE <<st, due>>

----------------------------------------------------------------------------
(* OAuth2.isAuthenticated and OAuth2.expiresIn, on the value load() gives *)

\* isAuthenticated with >= in place of >
isAuthenticatedInclusive(st, t) ==
    LET s == load(st)
        sum == Plus(ParseInt(s.expires_in), s.time)
    IN  /\ s.tag # "undefined"
        /\ s.tag # "null"
        /\ Len(sum) = 1
        /\ sum[1] >= t

isAuthenticated(st, t) ==
    LET s == load(st)
    IN  /\ s.tag # "undefined"
        /\ s.tag # "null"
        /\ Greater(Plus(ParseInt(s.expires_in), s.time), <<t>>)

\* expiresIn without the isAuthenticated() test
expiresInUnguarded(st, t) ==
    IF Truthy(load(st))
    THEN Minus(Plus(load(st).time, ParseInt(load(st).expires_in)), <<t>>)
    ELSE <<-1>>

expiresIn(st, t) ==
    IF isAuthenticated(st, t)
    THEN Minus(Plus(load(st).time, ParseInt(load(st).expires_in)), <<t>>)
    ELSE <<-1>>

----------------------------------------------------------------------------
(* Requests *)

Request(kind, t, refreshToken, accessToken, authorization) ==
    [kind |-> kind, time |-> t, refresh_token |-> refreshToken,
     token |-> accessToken, authorization |-> authorization]

NoHeader == <<>>

\* sequence s without its i-th element
Without(s, i) == [j \in 1..(Len(s) - 1) |-> IF j < i THEN s[j] ELSE s[j + 1]]

\* the bag of the elements of sequence s
BagOf(s) == IF s = <<>> THEN EmptyBag ELSE SetToBag({s[1]})

\* the requests in flight of one kind
Pending(kind) == {q \in BagToSet(inflight) : q.kind = kind}

----------------------------------------------------------------------------
(* refresh(): what one call does, given the storage, OAuth2.state and time. *)
(* It gives the new OAuth2.state, the events triggered, the requests sent   *)
(* and whether reading OAuth2.state.refresh_token threw.                    *)

refresh(st, mem, t) ==
    LET found == Truthy(load(st))
        mem1 == IF found THEN load(st) ELSE mem
        events == IF found THEN <<>> ELSE <<Event("error", NoAuthenticationData)>>
        throws == mem1.tag = "null"
    IN  [state |-> mem1,
         events |-> events,
         requests |-> IF throws THEN <<>>
                      ELSE <<Request("refresh", t, mem1.refresh_token,
                                     Undefined, NoHeader)>>,
         thrown |-> throws]

----------------------------------------------------------------------------
\* What an earlier session may have left in jStorage when the object is
\* constructed: nothing, or a token response saved at time 0.
PreviousSessions ==
    { <<FalseValue, <<>>>>,
      save([Response("A1", "R1", Bearer, <<60600>>) EXCEPT !.time = <<0>>],
           <<60600>>, 0) }

\* The constructor: OAuth2.state = load(), and with options.autoRefresh the
\* first setTimeout(triggerRefresh, AUTO_REFRESH_TIME).
Init ==
    /\ now = 0
    /\ advances = 0
    /\ \E stored \in PreviousSessions :
           /\ storage = stored[1]
           /\ ttlDue = stored[2]
    /\ state = load(storage)
    /\ autoRefresh \in BOOLEAN
    /\ timers = IF autoRefresh THEN <<AUTO_REFRESH_TIME>> ELSE <<>>
    /\ inflight = EmptyBag
    /\ op = "construct"
    /\ emitted = <<>>
    /\ sent = <<>>
    /\ thrown = FALSE
    /\ requests = 0

\* The clock advances.
Advance ==
    /\ advances < MaxAdvances
    /\ \E d \in ClockSteps : now' = now + d
    /\ advances' = advances + 1
    /\ op' = "advance"
    /\ emitted' = <<>>
    /\ sent' = <<>>
    /\ thrown' = FALSE
    /\ UNCHANGED <<requests, storage, ttlDue, state, autoRefresh, timers, inflight>>

\* jStorage drops the key once its TTL has passed.
StorageExpire ==
    /\ Truthy(storage)
    /\ Len(ttlDue) = 1
    /\ ttlDue[1] <= now
    /\ storage' = FalseValue
    /\ ttlDue' = <<>>
    /\ op' = "expire"
    /\ emitted' = <<>>
    /\ sent' = <<>>
    /\ thrown' = FALSE
    /\ UNCHANGED <<requests, now, advances, state, autoRefresh, timers, inflight>>

\* A caller invokes OAuth2.isAuthenticated().
IsAuthenticatedCall ==
    /\ state' = load(storage)
    /\ op' = "isAuthenticated"
    /\ emitted' = <<>>
    /\ sent' = <<>>
    /\ thrown' = FALSE
    /\ UNCHANGED <<requests, now, advances, storage, ttlDue, autoRefresh, timers, inflight>>

\* A caller invokes OAuth2.expiresIn(); it returns expiresIn(storage, now).
ExpiresInCall ==
    /\ state' = load(storage)
    /\ op' = "expiresIn"
    /\ emitted' = <<>>
    /\ sent' = <<>>
    /\ thrown' = FALSE
    /\ UNCHANGED <<requests, now, advances, storage, ttlDue, autoRefresh, timers, inflight>>

\* Backbone.sync(method, model, options): the request goes to the original
\* sync, whose callbacks belong to the model; sent records its headers.
Sync ==
    /\ state' = load(storage)
    /\ sent' = IF isAuthenticated(storage, now)
               THEN <<Request("sync", now, Undefined, Undefined,
                              <<capitalize(state'.token_type), state'.access_token>>)>>
               ELSE <<Request("sync", now, Undefined, Undefined, NoHeader)>>
    /\ op' = "sync"
    /\ emitted' = <<>>
    /\ thrown' = FALSE
    /\ UNCHANGED <<requests, now, advances, storage, ttlDue, autoRefresh, timers, inflight>>

\* access() without the early return of its authenticated branch
AccessWithoutEarlyReturn ==
    /\ state' = load(storage)
    /\ emitted' = IF isAuthenticated(storage, now)
                  THEN <<Event("success", load(storage))>> ELSE <<>>
    /\ sent' = <<Request("access", now, Undefined, Undefined, NoHeader)>>
    /\ inflight' = inflight (+) BagOf(sent')
    /\ requests' = requests + Len(sent')
    /\ requests' <= MaxRequests
    /\ op' = "access"
    /\ thrown' = FALSE
    /\ UNCHANGED <<now, advances, storage, ttlDue, autoRefresh, timers>>

\* access(username, password).  The username and the password only travel
\* in the body of the request; the answer of the server is the choice between
\* AccessSuccess, with one of Responses, and AccessError.
Access ==
    /\ state' = load(storage)
    /\ IF isAuthenticated(storage, now)
       THEN /\ emitted' = <<Event("success", load(storage))>>
            /\ sent' = <<>>
       ELSE /\ emitted' = <<>>
            /\ sent' = <<Request("access", now, Undefined, Undefined, NoHeader)>>
    /\ inflight' = inflight (+) BagOf(sent')
    /\ requests' = requests + Len(sent')
    /\ requests' <= MaxRequests
    /\ op' = "access"
    /\ thrown' = FALSE
    /\ UNCHANGED <<now, advances, storage, ttlDue, autoRefresh, timers>>

\* the success callback of access with response.time taken when the
\* response arrives
AccessSuccessStampsResponseTime ==
    \E q \in Pending("access"), r \in Responses :
        /\ LET time == now
               response == [r EXCEPT !.time = <<time>>]
               timediff == now - time
               saved == save(response, Minus(response.expires_in, <<timediff>>), now)
           IN  /\ state' = response
               /\ storage' = saved[1]
               /\ ttlDue' = saved[2]
               /\ emitted' = <<Event("success", response)>>
        /\ inflight' = inflight (-) SetToBag({q})
        /\ sent' = <<>>
        /\ op' = "accessSuccess"
        /\ thrown' = FALSE
        /\ UNCHANGED <<requests, now, advances, autoRefresh, timers>>

\* success callback of the access request
AccessSuccess ==
    \E q \in Pending("access"), r \in Responses :
        /\ LET time == q.time
               response == [r EXCEPT !.time = <<time>>]
               timediff == now - time
               saved == save(response, Minus(response.expires_in, <<timediff>>), now)
           IN  /\ state' = response
               /\ storage' = saved[1]
               /\ ttlDue' = saved[2]
               /\ emitted' = <<Event("success", response)>>
        /\ inflight' = inflight (-) SetToBag({q})
        /\ sent' = <<>>
        /\ op' = "accessSuccess"
        /\ thrown' = FALSE
        /\ UNCHANGED <<requests, now, advances, autoRefresh, timers>>

\* error callback of the access request
AccessError ==
    \E q \in Pending("access") :
        /\ LET r == refresh(storage, state, now)
           IN  /\ state' = r.state
               /\ sent' = r.requests
               /\ thrown' = r.thrown
               /\ emitted' = IF r.thrown THEN r.events
                             ELSE r.events \o <<Event("error", Xhr(400))>>
        /\ inflight' = (inflight (-) SetToBag({q})) (+) BagOf(sent')
        /\ requests' = requests + Len(sent')
        /\ requests' <= MaxRequests
        /\ op' = "accessError"
        /\ UNCHANGED <<now, advances, storage, ttlDue, autoRefresh, timers>>

\* refresh(), invoked by a caller
Refresh ==
    /\ LET r == refresh(storage, state, now)
       IN  /\ state' = r.state
           /\ sent' = r.requests
           /\ thrown' = r.thrown
           /\ emitted' = r.events
    /\ inflight' = inflight (+) BagOf(sent')
    /\ requests' = requests + Len(sent')
    /\ requests' <= MaxRequests
    /\ op' = "refresh"
    /\ UNCHANGED <<now, advances, storage, ttlDue, autoRefresh, timers>>

\* success callback of the refresh request without its trigger call
RefreshSuccessSilent ==
    \E q \in Pending("refresh"), r \in Responses :
        /\ LET time == q.time
               response == [r EXCEPT !.time = <<time>>]
               timediff == now - time
               saved == save(response, Minus(response.expires_in, <<timediff>>), now)
           IN  /\ state' = response
               /\ storage' = saved[1]
               /\ ttlDue' = saved[2]
               /\ emitted' = <<>>
        /\ inflight' = inflight (-) SetToBag({q})
        /\ sent' = <<>>
        /\ op' = "refreshSuccess"
        /\ thrown' = FALSE
        /\ UNCHANGED <<requests, now, advances, autoRefresh, timers>>

\* success callback of the refresh request
RefreshSuccess ==
    \E q \in Pending("refresh"), r \in Responses :
        /\ LET time == q.time
               response == [r EXCEPT !.time = <<time>>]
               timediff == now - time
               saved == save(response, Minus(response.expires_in, <<timediff>>), now)
           IN  /\ state' = response
               /\ storage' = saved[1]
               /\ ttlDue' = saved[2]
               /\ emitted' = <<Event("success", response)>>
        /\ inflight' = inflight (-) SetToBag({q})
        /\ sent' = <<>>
        /\ op' = "refreshSuccess"
        /\ thrown' = FALSE
        /\ UNCHANGED <<requests, now, advances, autoRefresh, timers>>

\* error callback of the refresh request
RefreshError ==
    \E q \in Pending("refresh") :
        /\ emitted' = <<Event("error", Xhr(400))>>
        /\ inflight' = inflight (-) SetToBag({q})
        /\ sent' = <<>>
        /\ op' = "refreshError"
        /\ thrown' = FALSE
        /\ UNCHANGED <<requests, now, advances, storage, ttlDue, state, autoRefresh, timers>>

\* revoke() whose unauthenticated branch does not call clear()
RevokeWithoutClear ==
    /\ IF ~isAuthenticated(storage, now)
       THEN /\ state' = NullValue
            /\ emitted' = <<Event("revoke", NullValue)>>
            /\ sent' = <<>>
       ELSE /\ state' = load(storage)
            /\ LET tokenType == capitalize(state'.token_type)
                   accessToken == state'.access_token
               IN  sent' = <<Request("revoke", now, Undefined, accessToken,
                                     <<tokenType, accessToken>>)>>
            /\ emitted' = <<>>
    /\ UNCHANGED <<storage, ttlDue>>
    /\ inflight' = inflight (+) BagOf(sent')
    /\ requests' = requests + Len(sent')
    /\ requests' <= MaxRequests
    /\ op' = "revoke"
    /\ thrown' = FALSE
    /\ UNCHANGED <<now, advances, autoRefresh, timers>>

\* revoke()
Revoke ==
    /\ IF ~isAuthenticated(storage, now)
       THEN /\ storage' = clear(storage, ttlDue)[1]
            /\ ttlDue' = clear(storage, ttlDue)[2]
            /\ state' = NullValue
            /\ emitted' = <<Event("revoke", NullValue)>>
            /\ sent' = <<>>
       ELSE /\ state' = load(storage)
            /\ LET tokenType == capitalize(state'.token_type)
                   accessToken == state'.access_token
               IN  sent' = <<Request("revoke", now, Undefined, accessToken,
                                     <<tokenType, accessToken>>)>>
            /\ emitted' = <<>>
            /\ UNCHANGED <<storage, ttlDue>>
    /\ inflight' = inflight (+) BagOf(sent')
    /\ requests' = requests + Len(sent')
    /\ requests' <= MaxRequests
    /\ op' = "revoke"
    /\ thrown' = FALSE
    /\ UNCHANGED <<now, advances, autoRefresh, timers>>

\* success callback of the revoke request
RevokeSuccess ==
    \E q \in Pending("revoke") :
        /\ storage' = clear(storage, ttlDue)[1]
        /\ ttlDue' = clear(storage, ttlDue)[2]
        /\ emitted' = <<Event("revoke", RevokeBody)>>
        /\ inflight' = inflight (-) SetToBag({q})
        /\ sent' = <<>>
        /\ op' = "revokeSuccess"
        /\ thrown' = FALSE
        /\ UNCHANGED <<requests, now, advances, state, autoRefresh, timers>>

\* the error callback of the revoke request with the key deleted on every
\* status
revokeErrorAlwaysClears(st, due, status) ==
    [stored |-> clear(st, due),
     events |-> IF status = 401
                THEN <<Event("revoke", Xhr(status)), Event("error", Xhr(status))>>
                ELSE <<Event("error", Xhr(status))>>]

\* what the error callback of the revoke request does on a status:
\* the pair <<storage, ttlDue>> it leaves and the events it triggers
revokeError(st, due, status) ==
    IF status = 401
    THEN [stored |-> clear(st, due),
          events |-> <<Event("revoke", Xhr(status)), Event("error", Xhr(status))>>]
    ELSE [stored |-> <<st, due>>,
          events |-> <<Event("error", Xhr(status))>>]

\* error callback of the revoke request
RevokeError ==
    \E q \in Pending("revoke"), status \in RevokeFailures :
        /\ LET r == revokeError(storage, ttlDue, status)
           IN  /\ storage' = r.stored[1]
               /\ ttlDue' = r.stored[2]
               /\ emitted' = r.events
        /\ inflight' = inflight (-) SetToBag({q})
        /\ sent' = <<>>
        /\ op' = IF status = 401 THEN "revokeError401" ELSE "revokeError"
        /\ thrown' = FALSE
        /\ UNCHANGED <<requests, now, advances, state, autoRefresh, timers>>

\* triggerRefresh without the isAuthenticated() test around its body
triggerRefreshUnchecked ==
    \E k \in 1..Len(timers) :
        /\ timers[k] <= now
        /\ IF Less(expiresIn(storage, now), <<REFRESH_MAX_TIME>>)
           THEN LET r == refresh(storage, load(storage), now)
                IN  /\ state' = r.state
                    /\ sent' = r.requests
                    /\ emitted' = r.events
                    /\ thrown' = r.thrown
           ELSE /\ state' = load(storage)
                /\ sent' = <<>>
                /\ emitted' = <<>>
                /\ thrown' = FALSE
        /\ timers' = Append(Without(timers, k), now + AUTO_REFRESH_TIME)
        /\ inflight' = inflight (+) BagOf(sent')
        /\ requests' = requests + Len(sent')
        /\ requests' <= MaxRequests
        /\ op' = "triggerRefresh"
        /\ UNCHANGED <<now, advances, storage, ttlDue, autoRefresh>>

\* triggerRefresh with a second setTimeout after the refresh() call
triggerRefreshDoubleSchedule ==
    \E k \in 1..Len(timers) :
        /\ timers[k] <= now
        /\ IF isAuthenticated(storage, now)
           THEN IF Less(expiresIn(storage, now), <<REFRESH_MAX_TIME>>)
                THEN LET r == refresh(storage, load(storage), now)
                     IN  /\ state' = r.state
                         /\ sent' = r.requests
                         /\ emitted' = r.events
                         /\ timers' = Append(Append(Without(timers, k),
                                                    now + AUTO_REFRESH_TIME),
                                             now + AUTO_REFRESH_TIME)
                ELSE /\ state' = load(storage)
                     /\ sent' = <<>>
                     /\ emitted' = <<>>
                     /\ timers' = Append(Without(timers, k), now + AUTO_REFRESH_TIME)
           ELSE /\ state' = load(storage)
                /\ sent' = <<>>
                /\ emitted' = <<>>
                /\ timers' = Without(timers, k)
        /\ inflight' = inflight (+) BagOf(sent')
        /\ requests' = requests + Len(sent')
        /\ requests' <= MaxRequests
        /\ op' = "triggerRefresh"
        /\ thrown' = FALSE
        /\ UNCHANGED <<now, advances, storage, ttlDue, autoRefresh>>

\* triggerRefresh(auth), run by a setTimeout that has come due
triggerRefresh ==
    \E k \in 1..Len(timers) :
        /\ timers[k] <= now
        /\ IF isAuthenticated(storage, now)
           THEN /\ IF Less(expiresIn(storage, now), <<REFRESH_MAX_TIME>>)
                   THEN LET r == refresh(storage, load(storage), now)
                        IN  /\ state' = r.state
                            /\ sent' = r.requests
                            /\ emitted' = r.events
                   ELSE /\ state' = load(storage)
                        /\ sent' = <<>>
                        /\ emitted' = <<>>
                /\ timers' = Append(Without(timers, k), now + AUTO_REFRESH_TIME)
           ELSE /\ state' = load(storage)
                /\ sent' = <<>>
                /\ emitted' = <<>>
                /\ timers' = Without(timers, k)
        /\ inflight' = inflight (+) BagOf(sent')
        /\ requests' = requests + Len(sent')
        /\ requests' <= MaxRequests
        /\ op' = "triggerRefresh"
        /\ thrown' = FALSE
        /\ UNCHANGED <<now, advances, storage, ttlDue, autoRefresh>>

Next ==
    \/ Advance
    \/ StorageExpire
    \/ IsAuthenticatedCall
    \/ ExpiresInCall
    \/ Sync
    \/ Access
    \/ AccessSuccess
    \/ AccessError
    \/ Refresh
    \/ RefreshSuccess
    \/ RefreshError
    \/ Revoke
    \/ RevokeSuccess
    \/ RevokeError
    \/ triggerRefresh

Spec == Init /\ [][Next]_vars

----------------------------------------------------------------------------
(* Claims *)

\* the refresh requests in flight, counted with their multiplicity
RefreshInFlight ==
    IF Pending("refresh") = {} THEN 0
    ELSE IF Cardinality(Pending("refresh")) = 1
         THEN CopiesIn(CHOOSE q \in Pending("refresh") : TRUE, inflight)
         ELSE 2

\* C1: at any time at most one refresh request of the instance is in flight;
\* a refresh() invoked while one is pending issues no second request.
C1_AtMostOneRefreshInFlight == RefreshInFlight <= 1

\* C2: with autoRefresh enabled the scheduler keeps ticking: after every
\* tick, also one at which isAuthenticated() is false, a next tick is pending.
C2_SchedulerKeepsTicking == autoRefresh => Len(timers) >= 1

\* C3: refresh() invoked while the store holds no credential triggers an
\* error event and hands no request to $.ajax.
C3_RefreshWithoutCredential ==
    (op = "refresh" /\ ~Truthy(load(storage)))
        => (sent = <<>> /\ Names(emitted) = <<"error">>)

\* C4: a revoke response with status 401 has the effect of a successful
\* revoke response: the key is deleted, one revoke event and no error event.
C4_Revoke401LikeSuccess ==
    op = "revokeError401"
        => (~Truthy(load(storage)) /\ Names(emitted) = <<"revoke">>)

\* C5: a failed access response only triggers one error event carrying the
\* raw failure: no write to the store, no further request, and
\* isAuthenticated() does not become true.
C5_AccessFailureOnlyEmitsError ==
    [][op' = "accessError"
        => /\ Names(emitted') = <<"error">>
           /\ emitted'[1].payload.tag = "xhr"
           /\ sent' = <<>>
           /\ storage' = storage
           /\ ttlDue' = ttlDue
           /\ (~isAuthenticated(storage, now) => ~isAuthenticated(storage', now'))]_vars


\* C6, as stated: access() while isAuthenticated() is true sends no request,
\* leaves the store as it is and triggers one event named access whose
\* payload is the stored response.
C6_AccessWhileAuthenticatedEmitsAccess ==
    [][(op' = "access" /\ isAuthenticated(storage, now))
        => /\ sent' = <<>>
           /\ inflight' = inflight
           /\ storage' = storage
           /\ ttlDue' = ttlDue
           /\ emitted' = <<Event("access", load(storage))>>]_vars

\* C6, amended: access() while isAuthenticated() is true sends no request,
\* leaves the store as it is and triggers one event, named success, whose
\* payload is the stored response.
C6_AccessWhileAuthenticated ==
    [][(op' = "access" /\ isAuthenticated(storage, now))
        => /\ sent' = <<>>
           /\ inflight' = inflight
           /\ storage' = storage
           /\ ttlDue' = ttlDue
           /\ emitted' = <<Event("success", load(storage))>>]_vars

\* access() has just run while a valid response was stored
C6_Witness ==
    /\ op = "access"
    /\ isAuthenticated(storage, now)
    /\ Len(emitted) = 1
    /\ emitted[1].payload = storage

\* C7: a failed refresh response, and a failed revoke response whose status
\* is not 401, leave the stored response and its TTL as they were and trigger
\* exactly one event, error.
C7_FailureKeepsStore ==
    [][op' \in {"refreshError", "revokeError"}
        => /\ storage' = storage
           /\ ttlDue' = ttlDue
           /\ Names(emitted') = <<"error">>]_vars

\* a revoke request has failed with a status other than 401 while a valid
\* response is stored
C7_Witness ==
    /\ op = "revokeError"
    /\ isAuthenticated(storage, now)
    /\ emitted[1].payload.status # 401

\* whether a stored value carries both tokens
HasBothTokens(v) == v.access_token # Undefined /\ v.refresh_token # Undefined

\* time + expires_in of a stored value exceeds t
Unexpired(v, t) ==
    /\ Len(v.time) = 1
    /\ Len(v.expires_in) = 1
    /\ v.time[1] + v.expires_in[1] > t

\* C8, as stated: isAuthenticated() is true iff the stored record has both
\* tokens and issuedAt + expiresIn > now.
C8_AuthenticatedIffTokensAndUnexpired ==
    isAuthenticated(storage, now)
        <=> (Truthy(storage) /\ HasBothTokens(storage) /\ Unexpired(storage, now))

\* C8, amended: isAuthenticated() is true iff a record is stored and its
\* time + expires_in > now, whether or not it has both tokens; it is false
\* at now = time + expires_in.
C8_AuthenticatedIffUnexpired ==
    /\ isAuthenticated(storage, now) <=> (Truthy(storage) /\ Unexpired(storage, now))
    /\ (Truthy(storage) /\ Len(storage.expires_in) = 1
            /\ storage.time[1] + storage.expires_in[1] = now)
           => ~isAuthenticated(storage, now)

\* a record is stored and the clock stands at its time + expires_in
C8_Witness ==
    /\ Truthy(storage)
    /\ Len(storage.expires_in) = 1
    /\ storage.time[1] + storage.expires_in[1] = now

\* seconds as milliseconds
SecondsToMs(s) == s * 1000

\* C9: a stored response with expires_in = E (seconds) whose request was
\* sent at t0 is valid for E seconds from t0: at every clock value t with
\* t0 <= t < t0 + E s, isAuthenticated() is true and expiresIn() is
\* E s - (t - t0).
C9_LifetimeInSeconds ==
    (/\ Truthy(storage)
     /\ HasBothTokens(storage)
     /\ Len(storage.expires_in) = 1
     /\ storage.time[1] <= now
     /\ now < storage.time[1] + SecondsToMs(storage.expires_in[1]))
        => /\ isAuthenticated(storage, now)
           /\ expiresIn(storage, now)
                = <<SecondsToMs(storage.expires_in[1]) - (now - storage.time[1])>>

\* the remaining lifetime, in ms, of a stored response at time t
RemainingMs(v, t) == v.time[1] + SecondsToMs(v.expires_in[1]) - t

\* C10: a scheduler tick calls refresh() iff isAuthenticated() is true and
\* the remaining lifetime of the token is below the threshold of
\* REFRESH_MAX_TIME seconds, both taken in the same unit.
C10_TickRefreshesBelowThreshold ==
    op = "triggerRefresh"
        => ((sent # <<>>)
              <=> (/\ isAuthenticated(storage, now)
                   /\ RemainingMs(storage, now) < SecondsToMs(REFRESH_MAX_TIME)))


\* C11, as stated: expiresIn() is time + expires_in - now, a strictly
\* positive value, whenever isAuthenticated() is true, and 0 whenever it is
\* false; it is never negative.
C11_ExpiresInSentinelZero ==
    op = "expiresIn"
        => /\ isAuthenticated(storage, now)
                  => /\ expiresIn(storage, now)
                           = <<storage.time[1] + storage.expires_in[1] - now>>
                     /\ expiresIn(storage, now)[1] > 0
           /\ ~isAuthenticated(storage, now) => expiresIn(storage, now) = <<0>>
           /\ expiresIn(storage, now)[1] >= 0

\* C11, amended: expiresIn() is time + expires_in - now, a strictly positive
\* value, whenever isAuthenticated() is true, and -1 whenever it is false
\* (in every reachable state, so at every call).
C11_ExpiresInSentinelMinusOne ==
    /\ isAuthenticated(storage, now)
           => /\ expiresIn(storage, now)
                    = <<storage.time[1] + storage.expires_in[1] - now>>
              /\ expiresIn(storage, now)[1] > 0
    /\ ~isAuthenticated(storage, now) => expiresIn(storage, now) = <<-1>>

\* expiresIn() has been called while an expired response is still stored
C11_Witness ==
    /\ op = "expiresIn"
    /\ Truthy(storage)
    /\ Len(storage.expires_in) = 1
    /\ storage.time[1] + storage.expires_in[1] <= now


\* C12: a refresh request handed to $.ajax never carries a refresh token
\* other than the one of the response that is in the store when refresh() is
\* called (refresh() leaves the store as it is): no token that is only in
\* OAuth2.state, after the key was revoked, cleared or expired.
C12_RefreshTokenFromStore ==
    (sent # <<>> /\ sent[1].kind = "refresh" /\ sent[1].refresh_token # Undefined)
        => /\ Truthy(load(storage))
           /\ sent[1].refresh_token = load(storage).refresh_token


\* the success callbacks, which write the store
Writes == {"accessSuccess", "refreshSuccess"}

\* C13, as stated: every write of a response to the store sets the same
\* positive TTL, whatever the response's expires_in and the round trip: the
\* key has a TTL due after now, and two writes at the same clock value leave
\* the same due time.
C13_SameLongLivedTTL ==
    [][op' \in Writes
        => /\ Len(ttlDue') = 1
           /\ ttlDue'[1] > now'
           /\ (op \in Writes /\ now' = now) => ttlDue' = ttlDue]_vars

\* C13, amended: every write sets the TTL expires_in - (round trip), taken
\* as milliseconds: the key is due at the request time + expires_in, the
\* instant at which isAuthenticated() turns false; when that is not after
\* now, or expires_in is missing, the key gets no TTL at all.
C13_TTLIsRemainingLifetime ==
    op \in Writes
        => ttlDue = IF Unexpired(storage, now)
                    THEN <<storage.time[1] + storage.expires_in[1]>>
                    ELSE <<>>

\* a response has been written after a round trip that took time, with a TTL
C13_Witness ==
    /\ op \in Writes
    /\ storage.time[1] < now
    /\ Len(ttlDue) = 1


\* C14: revoke() called while isAuthenticated() is false deletes the key if
\* there is one, triggers exactly one revoke event with payload null and sends
\* no request; called again right after, it does the same and leaves the same
\* empty store.
C14_RevokeFastPath ==
    [][(op' = "revoke" /\ ~isAuthenticated(storage, now))
        => /\ ~Truthy(load(storage'))
           /\ ttlDue' = <<>>
           /\ emitted' = <<Event("revoke", NullValue)>>
           /\ sent' = <<>>
           /\ inflight' = inflight
           /\ (op = "revoke" /\ sent = <<>>)
                  => (storage' = storage /\ ttlDue' = ttlDue /\ state' = state)]_vars

\* revoke() has run on its unauthenticated branch
C14_Witness ==
    /\ op = "revoke"
    /\ emitted = <<Event("revoke", NullValue)>>
    /\ ~Truthy(load(storage))
    /\ state = NullValue


\* C15, as stated: a successful access response triggers exactly one event,
\* named access, and a successful refresh response exactly one event, named
\* refresh, each with the response just written to the store as payload.
C15_EventNamedAfterGrant ==
    /\ op = "accessSuccess" => emitted = <<Event("access", load(storage))>>
    /\ op = "refreshSuccess" => emitted = <<Event("refresh", load(storage))>>

\* C15, amended: a successful access response and a successful refresh
\* response each trigger exactly one event, named success in both cases, with
\* the response just written to the store (and to OAuth2.state) as payload.
C15_EventNamedSuccess ==
    op \in Writes
        => /\ emitted = <<Event("success", load(storage))>>
           /\ Truthy(load(storage))
           /\ state = load(storage)

\* a refresh response has been written and announced
C15_Witness ==
    /\ op = "refreshSuccess"
    /\ Len(emitted) = 1
    /\ emitted[1].payload = storage


\* the letters of the token types, lower case and upper case
LetterPairs == {<<"b", "B">>, <<"e", "E">>, <<"a", "A">>, <<"r", "R">>}

\* s is orig with its first letter in upper case and the others in lower case
Capitalized(s, orig) ==
    /\ Len(s) = Len(orig)
    /\ \A i \in 1..Len(s) :
           \E p \in LetterPairs :
               /\ orig[i] \in {p[1], p[2]}
               /\ s[i] = IF i = 1 THEN p[2] ELSE p[1]

\* the Authorization header <<scheme, token>>, read "scheme token", is made
\* from the stored response v
HeaderOf(h, v) ==
    /\ Len(h) = 2
    /\ Capitalized(h[1], v.token_type)
    /\ h[2] = v.access_token

\* C16, as stated: while isAuthenticated() is true the Authorization header
\* is the capitalized token type, a space and the stored access token; while
\* it is false the operation fails and no request goes out without a header.
C16_HeaderOrUnauthorized ==
    op = "sync"
        => IF isAuthenticated(storage, now)
           THEN Len(sent) = 1 /\ HeaderOf(sent[1].authorization, load(storage))
           ELSE thrown /\ sent = <<>>

\* C16, amended: while isAuthenticated() is true the Authorization header is
\* the capitalized token type, a space and the stored access token; while it
\* is false nothing fails and the request goes out without the header.
C16_HeaderOrNone ==
    op = "sync"
        => /\ Len(sent) = 1
           /\ ~thrown
           /\ IF isAuthenticated(storage, now)
              THEN HeaderOf(sent[1].authorization, load(storage))
              ELSE sent[1].authorization = NoHeader

\* a request has been sent with a header whose scheme is not the stored
\* token type letter for letter
C16_Witness ==
    /\ op = "sync"
    /\ isAuthenticated(storage, now)
    /\ Len(sent[1].authorization) = 2
    /\ sent[1].authorization[1] # storage.token_type
    /\ Tail(sent[1].authorization[1]) # Tail(storage.token_type)


\* C17: a tick of the scheduler that finds isAuthenticated() false calls no
\* refresh(): it sends no request and emits no event; without autoRefresh no
\* tick runs at all and no timer is pending.
C17_NoRefreshWhileUnauthenticated ==
    /\ (op = "triggerRefresh" /\ ~isAuthenticated(storage, now))
           => (sent = <<>> /\ emitted = <<>> /\ ~thrown)
    /\ ~autoRefresh => (op # "triggerRefresh" /\ timers = <<>>)

\* a tick has run on a stored response that has expired
C17_Witness ==
    /\ op = "triggerRefresh"
    /\ Truthy(load(storage))
    /\ ~isAuthenticated(storage, now)


\* C18: an access or refresh request carries the clock value read when it is
\* sent, and the response written to the store by its success callback has
\* that value as its time, which is never later than the time of the write.
C18_IssuedAtIsSendTime ==
    [][/\ (sent' # <<>> /\ sent'[1].kind \in {"access", "refresh"})
              => sent'[1].time = now'
       /\ op' \in Writes
              => /\ \E q \in BagToSet(inflight) :
                        /\ inflight' = inflight (-) SetToBag({q})
                        /\ storage'.time = <<q.time>>
                 /\ storage'.time[1] <= now']_vars

\* an access response has been written some time after its request was sent
C18_Witness ==
    /\ op = "accessSuccess"
    /\ Truthy(load(storage))
    /\ storage.time[1] < now


\* the last operation has emitted the revoke event
RevokeEmitted == \E i \in 1..Len(emitted) : emitted[i].name = "revoke"

\* C19, as stated: when a revoke event has just been emitted, whatever runs
\* next other than a call of access() leaves the store empty and
\* isAuthenticated() false; in particular the response to a request sent
\* before the revoke does not write a token response back.
C19_StoreStaysEmptyAfterRevoke ==
    [][(RevokeEmitted /\ op' # "access")
           => /\ ~Truthy(load(storage'))
              /\ ~isAuthenticated(storage', now')]_vars


\* C20: at most one timer of the scheduler is pending at any time, and none
\* unless autoRefresh was set at construction; a tick that calls refresh()
\* has scheduled its one successor while the refresh request is still
\* waiting for its response.
C20_AtMostOneTimer ==
    /\ Len(timers) <= 1
    /\ timers # <<>> => autoRefresh
    /\ (op = "triggerRefresh" /\ sent # <<>>)
           => /\ timers = <<now + AUTO_REFRESH_TIME>>
              /\ BagIn(sent[1], inflight)

\* a tick has called refresh() and the request is in flight
C20_Witness ==
    /\ op = "triggerRefresh"
    /\ Len(sent) = 1
    /\ sent[1].kind = "refresh"
    /\ Len(timers) = 1

====
